---- MODULE Spec2Model ----
(***************************************************************************)
(* Model of amplog's ContentGenerator (src/unnamed/part_000): the          *)
(* recursive directory compilation generate(), its content-file rendering  *)
(* and asset copying.                                                      *)
(*                                                                         *)
(* Strings are sequences of one-character strings, so that the regular     *)
(* expressions and the string operations of the code are computed, not     *)
(* assumed.  A directory path is a sequence of path segments.  A           *)
(* configuration object is a function from its keys to their values.       *)
(***************************************************************************)
EXTENDS Integers, Sequences, FiniteSets, TLC

\* ------------------------------------------------------------------ bounds

\* Most entries (files and directories) in the whole source tree.
MaxEntries == 3

\* ----------------------------------------------------------------- strings

\* JavaScript's undefined, a value no string equals.
Undefined == <<"undefined">>

\* JavaScript truthiness of a string-or-undefined value.
Truthy(v) == v # Undefined /\ v # <<>>

Digits == {"0", "1", "2", "3", "4", "5", "6", "7", "8", "9"}

\* \w of the regular expressions, over the characters the model uses.
IsWordChar(c) == c \notin {".", "-", "|", "/", " "}

\* s[from..] ; the empty string when from is past the end.
Drop(s, n) == SubSeq(s, n + 1, Len(s))

StartsWith(s, p) == Len(s) >= Len(p) /\ SubSeq(s, 1, Len(p)) = p

\* String.prototype.replace(pat, "") with a string pattern: the first
\* occurrence of pat is removed.
RECURSIVE RemoveFirst(_, _)
RemoveFirst(s, pat) ==
    IF Len(s) < Len(pat) THEN s
    ELSE IF StartsWith(s, pat) THEN Drop(s, Len(pat))
    ELSE <<s[1]>> \o RemoveFirst(Tail(s), pat)

\* replace(/^\//, "")
StripLeadingSlash(s) == IF s # <<>> /\ s[1] = "/" THEN Tail(s) ELSE s

\* The segments of a "/"-separated path string, empty segments dropped as
\* path.join's normalisation drops them.
RECURSIVE SplitFrom(_, _)
SplitFrom(s, cur) ==
    IF s = <<>> THEN (IF cur = <<>> THEN <<>> ELSE <<cur>>)
    ELSE IF s[1] = "/"
         THEN (IF cur = <<>> THEN <<>> ELSE <<cur>>) \o SplitFrom(Tail(s), <<>>)
         ELSE SplitFrom(Tail(s), Append(cur, s[1]))

SplitPath(s) == SplitFrom(s, <<>>)

\* The absolute path string of a sequence of segments: "/a/b".
RECURSIVE PathString(_)
PathString(segs) ==
    IF segs = <<>> THEN <<>>
    ELSE <<"/">> \o segs[1] \o PathString(Tail(segs))

\* path.join(dir, s) of a directory and a relative path string.
PathJoin(dir, s) == dir \o SplitPath(s)

\* path.basename of a directory path.
Basename(dir) == IF dir = <<>> THEN <<>> ELSE dir[Len(dir)]

\* Index of the last "." of a name, 0 when it has none.
RECURSIVE LastDot(_, _)
LastDot(s, i) ==
    IF i = 0 THEN 0 ELSE IF s[i] = "." THEN i ELSE LastDot(s, i - 1)

\* path.extname(f).substr(1): the text after the last dot; empty when there
\* is no dot or the only dot leads the name.
ExtName(f) ==
    LET d == LastDot(f, Len(f))
    IN  IF d <= 1 THEN <<>> ELSE Drop(f, d)

\* filename.replace(/\.[\w]+$/, ""): a final ".ext" of word characters is
\* removed.
StripExtension(f) ==
    LET d == LastDot(f, Len(f))
    IN  IF d >= 1 /\ d < Len(f) /\ \A k \in (d + 1)..Len(f) : IsWordChar(f[k])
        THEN SubSeq(f, 1, d - 1)
        ELSE f

\* Whether s starts with \d{4}-\d{2}-\d{2}.
HasDatePrefix(s) ==
    /\ Len(s) >= 10
    /\ \A k \in {1, 2, 3, 4, 6, 7, 9, 10} : s[k] \in Digits
    /\ s[5] = "-"
    /\ s[8] = "-"

\* s.match(/(\d{4}-\d{2}-\d{2})?[_|-]?(.*)/): group 1 (the date, undefined
\* when absent) and group 2 (the rest after one optional separator of the
\* class [_|-]).  The match never fails.
DateSlugMatch(s) ==
    LET dated == HasDatePrefix(s)
        rest  == IF dated THEN Drop(s, 10) ELSE s
        sep   == rest # <<>> /\ rest[1] \in {"_", "|", "-"}
    IN  [date |-> IF dated THEN SubSeq(s, 1, 10) ELSE Undefined,
         slug |-> IF sep THEN Tail(rest) ELSE rest]

\* ---------------------------------------------------------- configuration

Empty == [k \in {} |-> Undefined]

Has(obj, k) == k \in DOMAIN obj

\* obj.k as JavaScript reads it: undefined for a missing key.
Get(obj, k) == IF k \in DOMAIN obj THEN obj[k] ELSE Undefined

\* obj.k = v
Put(obj, k, v) == [x \in DOMAIN obj \cup {k} |-> IF x = k THEN v ELSE obj[x]]

\* Object.assign({}, a, b): a fresh mapping, b winning on key collisions.
Assign(a, b) ==
    [x \in DOMAIN a \cup DOMAIN b |-> IF x \in DOMAIN b THEN b[x] ELSE a[x]]

\* ------------------------------------------------------------------ inputs

\* Dates as they appear in a directory name, in a file name and in front
\* matter.
DirDate == <<"2", "0", "2", "3", "-", "0", "9", "-", "0", "1">>
FileDate == <<"2", "0", "2", "4", "-", "0", "1", "-", "0", "5">>
MatterDate == <<"2", "0", "2", "0", "-", "0", "5", "-", "0", "5">>

IndexMd == <<"i", "n", "d", "e", "x", ".", "m", "d">>
PostUnderMd == FileDate \o <<"_", "h", "i", ".", "m", "d">>
PicPng == <<"p", "i", "c", ".", "p", "n", "g">>
WidgetDir == DirDate \o <<"-", "w", "i", "d", "g", "e", "t">>
HiDir == <<"h", "i">>

\* What readdirSync may list: a name and whether it is a directory.
FileEntries ==
    {[name |-> n, isDir |-> FALSE] :
        n \in {IndexMd, PostUnderMd, PicPng}}
DirEntries ==
    {[name |-> n, isDir |-> TRUE] : n \in {WidgetDir, HiDir}}

\* The site configuration the first generate call receives.
SiteConfig == [title |-> <<"S">>]

\* What loadConfigFile may return for a directory: nothing, or a dist_path
\* override.
DistPathOut == <<"/", "o", "u", "t">>
LocalConfigs == {Empty, [dist_path |-> DistPathOut]}

\* A Date object, as gray-matter yields for an unquoted ISO date.
DateObject(iso) == <<"Date">> \o iso
IsDateObject(v) == v # <<>> /\ v[1] = "Date"
\* date.toISOString().substr(0, 10)
IsoDate(v) == SubSeq(v, 2, 11)

\* A reference of a body to a resource by bare relative file name, in markdown
\* image syntax or in an HTML src/href attribute; each on a line of its own.
MdRef(f) == [syntax |-> "md", target |-> f]
HtmlRef(f) == [syntax |-> "html", target |-> f]

\* What a content file may hold: its front matter and its body's references.
FileContents ==
    {[matter |-> Empty, body |-> <<MdRef(PicPng), MdRef(PicPng), HtmlRef(PicPng)>>],
     [matter |-> [date |-> DateObject(MatterDate)], body |-> <<>>]}

SourceRoot == <<<<"s", "r", "c">>>>
DestRoot == <<<<"_", "d", "i", "s", "t">>>>
ContentPageName ==
    <<"i", "n", "d", "e", "x", ".", "h", "t", "m", "l">>
AmpSuffix == <<"a", "m", "p", ".", "h", "t", "m", "l">>

\* readonly renderAmpPages = true
renderAmpPages == TRUE
contentExtensionsToInclude == {<<"m", "d">>}
assetIgnoreExtensions ==
    {<<"s", "c", "s", "s">>, <<"s", "a", "s", "s">>, <<"c", "s", "s">>,
     <<"m", "d">>, <<"h", "b", "s">>}

\* -------------------------------------------------------- sequence helpers

Range(s) == {s[i] : i \in DOMAIN s}

RECURSIVE SelectEntries(_, _)
SelectEntries(s, keep) ==
    IF s = <<>> THEN <<>>
    ELSE (IF keep[s[1]] THEN <<s[1].name>> ELSE <<>>)
         \o SelectEntries(Tail(s), keep)

\* Whether directory path a is b or an ancestor of b.
IsPrefix(a, b) == Len(a) <= Len(b) /\ SubSeq(b, 1, Len(a)) = a

Parent(p) == SubSeq(p, 1, Len(p) - 1)

\* All duplicate-free sequences of at most n elements of S.
RECURSIVE Listings(_, _)
Listings(S, n) ==
    IF n = 0 THEN {<<>>}
    ELSE LET shorter == Listings(S, n - 1)
         IN  shorter \cup
             {Append(l, e) : l \in {x \in shorter : Len(x) = n - 1},
                             e \in S}

DistinctNames(l) == \A i, j \in DOMAIN l : i # j => l[i].name # l[j].name

\* ------------------------------------------- generate: directory resolution

\* Object.assign({}, baseConfig, sourceDirectoryConfig)
MergeDirectoryConfig(baseConfig, sourceDirectoryConfig) ==
    Assign(baseConfig, sourceDirectoryConfig)

\* fse.existsSync(path.join(sourceDirectory, "index.md"))
IsContentPackage(listing) == \E i \in DOMAIN listing : listing[i].name = IndexMd

\* The date and slug a content-package directory takes from the basename of
\* its destination directory.
DirectoryDateSlug(destDirectory) == DateSlugMatch(Basename(destDirectory))

\* currentDirectoryConfig as generate leaves it: the merged configuration,
\* with date and slug assigned (date possibly undefined) in a content package.
CurrentDirectoryConfig(baseConfig, sourceDirectoryConfig, destDirectory, isPackage) ==
    LET merged == MergeDirectoryConfig(baseConfig, sourceDirectoryConfig)
        m      == DirectoryDateSlug(destDirectory)
    IN  IF isPackage
        THEN Put(Put(merged, "date", m.date), "slug", m.slug)
        ELSE merged

\* overriddenDestDirectory, were the slug of a content package not appended
\* under a dist_path override.
OverriddenDestWithoutSlug(config, destDirectory, baseDest, isPackage) ==
    IF Truthy(Get(config, "dist_path"))
    THEN PathJoin(baseDest, StripLeadingSlash(config["dist_path"]))
    ELSE destDirectory

\* overriddenDestDirectory
OverriddenDestDirectory(config, destDirectory, baseDest, isPackage) ==
    IF Truthy(Get(config, "dist_path"))
    THEN LET o == PathJoin(baseDest, StripLeadingSlash(config["dist_path"]))
         IN  IF isPackage THEN PathJoin(o, config["slug"]) ELSE o
    ELSE destDirectory

\* The caller's configuration object, were the callee to assign into it
\* instead of into a fresh object.
CallerConfigAliased(baseConfig, currentDirectoryConfig) == currentDirectoryConfig

\* What the caller's configuration object holds once the callee has built its
\* own: the callee assigns into a fresh object, so the caller's is untouched.
CallerConfigAfterCall(baseConfig, currentDirectoryConfig) == baseConfig

\* The names processAssetFiles copies.
AssetFileNames(listing) ==
    SelectEntries(listing,
        [e \in Range(listing) |->
            /\ ~StartsWith(e.name, <<"_">>)
            /\ ~e.isDir
            /\ ExtName(e.name) \notin assetIgnoreExtensions])

\* The names processContentFiles renders.
ContentFileNames(listing) ==
    SelectEntries(listing,
        [e \in Range(listing) |->
            /\ ~StartsWith(e.name, <<"_">>)
            /\ ~e.isDir
            /\ ExtName(e.name) \in contentExtensionsToInclude])

\* The names generate recurses into.
SubDirectoryNames(listing) ==
    SelectEntries(listing, [e \in Range(listing) |-> e.isDir])

\* The files processAssetFiles writes: each asset under actualDestDirectory,
\* its name kept.
CopiedAssets(listing, actualDestDirectory) ==
    {Append(actualDestDirectory, f) : f \in Range(AssetFileNames(listing))}

\* ------------------------------------------------------- parseContentFile

\* path.join("/", pageConfig.path, filename), as a path string.
AbsoluteReference(pagePath, filename) ==
    PathString(Append(SplitPath(pagePath), filename))

\* The body after the two replace calls, as the references it holds: the
\* first markdown image reference and every HTML attribute reference get the
\* page's path in front.
RECURSIVE RewriteReferences(_, _, _)
RewriteReferences(body, pagePath, mdDone) ==
    IF body = <<>> THEN <<>>
    ELSE LET r       == body[1]
             rewrite == r.syntax = "html" \/ ~mdDone
         IN  <<[syntax |-> r.syntax,
                target |-> r.target,
                rewritten |-> rewrite,
                href |-> IF rewrite THEN AbsoluteReference(pagePath, r.target)
                         ELSE r.target]>>
             \o RewriteReferences(Tail(body), pagePath,
                                   mdDone \/ r.syntax = "md")

\* Object.assign(pageConfig, frontMatter), then a Date object in date is
\* replaced by its ISO day.
MergeFrontMatter(pageConfig, frontMatter) ==
    LET merged == Assign(pageConfig, frontMatter)
    IN  IF Truthy(Get(merged, "date")) /\ IsDateObject(merged["date"])
        THEN Put(merged, "date", IsoDate(merged["date"]))
        ELSE merged

\* parseContentFile: the page configuration with the front matter merged in
\* and the html, kept as the references the rendered body holds.
ParseContentFile(pageConfig, content) ==
    [pageConfig |-> MergeFrontMatter(pageConfig, content.matter),
     html |-> RewriteReferences(content.body, pageConfig["path"], FALSE)]

\* ------------------------------------------------------ renderContentFile

\* Object.assign({}, currentDirectoryConfig) with filename and source set.
NewPageConfig(currentDirectoryConfig, sourceDirectory, fileName) ==
    Put(Put(currentDirectoryConfig, "filename", fileName),
        "source", Append(sourceDirectory, fileName))

\* Lines 165-168: permalink stands in for a missing slug.
HonorPermalink(pc) ==
    IF ~Truthy(Get(pc, "slug")) /\ Truthy(Get(pc, "permalink"))
    THEN Put(pc, "slug", pc["permalink"])
    ELSE pc

\* Lines 170-184: a missing date and a missing slug are taken from the file
\* name, each only when it is missing.
DeriveDateSlug(pc) ==
    IF ~Truthy(Get(pc, "date")) \/ ~Truthy(Get(pc, "slug"))
    THEN LET m  == DateSlugMatch(StripExtension(pc["filename"]))
             p1 == IF ~Truthy(Get(pc, "date")) THEN Put(pc, "date", m.date) ELSE pc
         IN  IF ~Truthy(Get(p1, "slug")) THEN Put(p1, "slug", m.slug) ELSE p1
    ELSE pc

\* Lines 186-189
DefaultTitle(pc) ==
    IF ~Truthy(Get(pc, "title")) THEN Put(pc, "title", pc["slug"]) ELSE pc

\* Lines 191-193: date.substr(0, 4)
DeriveYear(pc) ==
    IF Truthy(Get(pc, "date"))
    THEN Put(pc, "year",
             SubSeq(pc["date"], 1, IF Len(pc["date"]) < 4 THEN Len(pc["date"]) ELSE 4))
    ELSE pc

\* Lines 195-197: the directory the page renders into.
PageDestDirectory(pc, actualDestDirectory) ==
    IF pc["filename"] # IndexMd
    THEN PathJoin(actualDestDirectory, pc["slug"])
    ELSE actualDestDirectory

\* Lines 200-202: the directory relative to the destination root.
PagePath(pageDest, baseDest) ==
    StripLeadingSlash(RemoveFirst(PathString(pageDest), PathString(baseDest)))

\* Lines 204-206
SetPathAmp(pc) ==
    IF renderAmpPages THEN Put(pc, "path_amp", pc["path"] \o AmpSuffix) ELSE pc

\* The directory written into, were it joined from the slug and not from
\* the page's path.
WriteDirectoryBySlug(pc, baseDest) == PathJoin(baseDest, pc["slug"])

\* Lines 227-232: the directory index.html is written into.
WriteDirectory(pc, baseDest) == PathJoin(baseDest, pc["path"])

\* renderContentFile: the page configuration as returned and the directory
\* its index.html went to.
RenderContentFile(pageConfig, actualDestDirectory, baseDest, content) ==
    LET p4     == DeriveYear(DefaultTitle(DeriveDateSlug(HonorPermalink(pageConfig))))
        p5     == Put(p4, "path",
                      PagePath(PageDestDirectory(p4, actualDestDirectory), baseDest))
        p6     == SetPathAmp(p5)
        parsed == ParseContentFile(p6, content)
        p7     == Put(parsed.pageConfig, "content_html", parsed.html)
    IN  [pageConfig |-> p7, dir |-> WriteDirectory(p7, baseDest)]

\* ------------------------------------------------------------------- state

VARIABLES
    status,                \* "idle", "running", "done" or "aborted"
    stack,                 \* the pending generate calls, innermost last
    callerConfig,          \* the configuration object the first call was given
    initialized,           \* ContentGenerator.initialized
    baseSourceDirectory,   \* ContentGenerator.baseSourceDirectory
    baseDestDirectory,     \* ContentGenerator.baseDestDirectory
    dirs,                  \* the directories entered so far, with what was read
    writes,                \* the index.html files written, in order
    assets,                \* the asset files copied
    calls,                 \* the generate calls that returned, in order
    ampErrors,             \* the file names whose AMP failure was logged
    result,                \* what the first generate call returned
    entriesLeft            \* entries the source tree may still list

vars ==
    <<status, stack, callerConfig, initialized, baseSourceDirectory,
      baseDestDirectory, dirs, writes, assets, calls, ampErrors, result,
      entriesLeft>>

\* The listings a directory may have.
AllListings ==
    {l \in Listings(FileEntries \cup DirEntries, MaxEntries) : DistinctNames(l)}

\* The listings a directory may have when the tree may hold that many more
\* entries.
ListingsWithin(left) == {l \in AllListings : Len(l) <= left}

\* The accumulator, were the subdirectory's pages not pushed.
PushNone(pages, subContent) == pages

\* The accumulator, were the subdirectory's pages put in front.
UnshiftAll(pages, subContent) == subContent \o pages

\* pages.push(...subContent)
PushAll(pages, subContent) == pages \o subContent

\* The failure, were it not caught.
AmpFailureRethrown == TRUE

\* The catch of lines 281-287 logs the error and goes on: the failure does
\* not leave processContentFiles.
AmpFailurePropagates == FALSE

\* The frame of a generate call up to its first suspension: configuration,
\* destination, listing, assets copied.
NewFrame(baseConfig, sourceDirectory, destDirectory, baseDest, local, listing) ==
    LET isPackage == IsContentPackage(listing)
        config    == CurrentDirectoryConfig(baseConfig, local, destDirectory, isPackage)
        actual    == OverriddenDestDirectory(config, destDirectory, baseDest, isPackage)
        files     == ContentFileNames(listing)
    IN  [baseConfig |-> baseConfig,
         sourceDirectory |-> sourceDirectory,
         destDirectory |-> destDirectory,
         config |-> config,
         actualDest |-> actual,
         isPackage |-> isPackage,
         files |-> files,
         subdirs |-> SubDirectoryNames(listing),
         pc |-> IF files = <<>> THEN "subdirs" ELSE "content",
         i |-> 1,
         j |-> 1,
         pages |-> <<>>,
         pending |-> <<>>]

DirRecord(frame, local, listing) ==
    [source |-> frame.sourceDirectory,
     dest |-> frame.destDirectory,
     received |-> frame.baseConfig,
     local |-> local,
     config |-> frame.config,
     actualDest |-> frame.actualDest,
     isPackage |-> frame.isPackage,
     listing |-> listing]

Top == stack[Len(stack)]

SetTop(f) == [stack EXCEPT ![Len(stack)] = f]

Init ==
    /\ status = "idle"
    /\ stack = <<>>
    /\ callerConfig = SiteConfig
    /\ initialized = FALSE
    /\ baseSourceDirectory = <<>>
    /\ baseDestDirectory = <<>>
    /\ dirs = <<>>
    /\ writes = <<>>
    /\ assets = {}
    /\ calls = <<>>
    /\ ampErrors = <<>>
    /\ result = <<>>
    /\ entriesLeft = MaxEntries

\* generate(config, SourceRoot, DestRoot) is called: initialize, then the
\* directory is resolved, listed and its assets copied.
Start ==
    /\ status = "idle"
    /\ \E local \in LocalConfigs, listing \in ListingsWithin(entriesLeft) :
         LET baseDest == IF initialized THEN baseDestDirectory ELSE DestRoot
             f == NewFrame(callerConfig, SourceRoot, DestRoot, baseDest, local, listing)
         IN  /\ stack' = <<f>>
             /\ callerConfig' = CallerConfigAfterCall(callerConfig, f.config)
             /\ baseDestDirectory' = baseDest
             /\ baseSourceDirectory' =
                    IF initialized THEN baseSourceDirectory ELSE SourceRoot
             /\ dirs' = Append(dirs, DirRecord(f, local, listing))
             /\ assets' = assets \cup CopiedAssets(listing, f.actualDest)
             /\ entriesLeft' = entriesLeft - Len(listing)
    /\ initialized' = TRUE
    /\ status' = "running"
    /\ UNCHANGED <<writes, calls, ampErrors, result>>

\* processContentFiles renders the next content file and asks for its AMP
\* variant.
RenderNext ==
    /\ status = "running"
    /\ Top.pc = "content"
    /\ \E content \in FileContents :
         LET f  == Top
             r  == RenderContentFile(
                       NewPageConfig(f.config, f.sourceDirectory, f.files[f.i]),
                       f.actualDest, baseDestDirectory, content)
         IN  /\ writes' = Append(writes,
                     [dir |-> r.dir, page |-> r.pageConfig, matter |-> content.matter])
             /\ stack' = SetTop(
                     IF renderAmpPages
                     THEN [f EXCEPT !.pc = "amp", !.pending = <<r.pageConfig>>]
                     ELSE [f EXCEPT !.pages = Append(@, r.pageConfig),
                                    !.i = @ + 1,
                                    !.pc = IF f.i + 1 > Len(f.files)
                                           THEN "subdirs" ELSE "content"])
    /\ UNCHANGED <<status, callerConfig, initialized, baseSourceDirectory,
                   baseDestDirectory, dirs, assets, calls, ampErrors, result,
                   entriesLeft>>

\* The frame once the AMP request of its pending page has settled.
AfterAmp(f) ==
    [f EXCEPT !.pages = Append(@, f.pending[1]),
              !.pending = <<>>,
              !.i = @ + 1,
              !.pc = IF f.i + 1 > Len(f.files) THEN "subdirs" ELSE "content"]

\* ampGenerator.generate resolved.
AmpResolved ==
    /\ status = "running"
    /\ Top.pc = "amp"
    /\ stack' = SetTop(AfterAmp(Top))
    /\ UNCHANGED <<status, callerConfig, initialized, baseSourceDirectory,
                   baseDestDirectory, dirs, writes, assets, calls, ampErrors,
                   result, entriesLeft>>

\* ampGenerator.generate threw or rejected.
AmpRejected ==
    /\ status = "running"
    /\ Top.pc = "amp"
    /\ IF AmpFailurePropagates
       THEN /\ status' = "aborted"
            /\ stack' = <<>>
            /\ UNCHANGED ampErrors
       ELSE /\ status' = status
            /\ stack' = SetTop(AfterAmp(Top))
            /\ ampErrors' = Append(ampErrors, Top.pending[1]["source"])
    /\ UNCHANGED <<callerConfig, initialized, baseSourceDirectory,
                   baseDestDirectory, dirs, writes, assets, calls, result,
                   entriesLeft>>

\* generate recurses into the next subdirectory.
Descend ==
    /\ status = "running"
    /\ Top.pc = "subdirs"
    /\ Top.j <= Len(Top.subdirs)
    /\ \E local \in LocalConfigs, listing \in ListingsWithin(entriesLeft) :
         LET p == Top
             f == NewFrame(p.config,
                           Append(p.sourceDirectory, p.subdirs[p.j]),
                           Append(p.destDirectory, p.subdirs[p.j]),
                           baseDestDirectory, local, listing)
         IN  /\ stack' = Append(
                     SetTop([p EXCEPT !.config = CallerConfigAfterCall(p.config, f.config)]),
                     f)
             /\ dirs' = Append(dirs, DirRecord(f, local, listing))
             /\ assets' = assets \cup CopiedAssets(listing, f.actualDest)
             /\ entriesLeft' = entriesLeft - Len(listing)
    /\ UNCHANGED <<status, callerConfig, initialized, baseSourceDirectory,
                   baseDestDirectory, writes, calls, ampErrors, result>>

\* Every subdirectory is done: the directory's template pages are generated
\* from the accumulated pages and generate returns them.
Return ==
    /\ status = "running"
    /\ Top.pc = "subdirs"
    /\ Top.j > Len(Top.subdirs)
    /\ calls' = Append(calls,
            [source |-> Top.sourceDirectory,
             dest |-> Top.destDirectory,
             config |-> Top.config,
             templatePages |-> Top.pages,
             returned |-> Top.pages])
    /\ IF Len(stack) = 1
       THEN /\ stack' = <<>>
            /\ result' = Top.pages
            /\ status' = "done"
       ELSE /\ LET p == stack[Len(stack) - 1]
               IN  stack' = Append(SubSeq(stack, 1, Len(stack) - 2),
                                   [p EXCEPT !.pages = PushAll(@, Top.pages),
                                             !.j = @ + 1])
            /\ UNCHANGED <<result, status>>
    /\ UNCHANGED <<callerConfig, initialized, baseSourceDirectory,
                   baseDestDirectory, dirs, writes, assets, ampErrors,
                   entriesLeft>>

Next == Start \/ RenderNext \/ AmpResolved \/ AmpRejected \/ Descend \/ Return

Spec == Init /\ [][Next]_vars

\* ---------------------------------------------------- reading the history

\* The record of the entered directory with that source path.
DirOf(src) == dirs[CHOOSE i \in DOMAIN dirs : dirs[i].source = src]

\* Whether the page x is an element of the sequence s of pages.
InSeq(x, s) == \E k \in DOMAIN s : s[k]["source"] = x["source"] /\ s[k] = x

\* The source directory of a written page.
PageDir(w) == DirOf(Parent(w.page["source"]))

\* The date-prefixed names the claims speak of: YYYY-MM-DD, one of - and _,
\* then a slug.
IsDatedName(s) == HasDatePrefix(s) /\ Len(s) > 11 /\ s[11] \in {"-", "_"}

\* What the returned call of that source directory returned.
ReturnedOf(src) == calls[CHOOSE i \in DOMAIN calls : calls[i].source = src].returned

\* The written page of that source file.
WrittenPage(src) == writes[CHOOSE i \in DOMAIN writes : writes[i].page["source"] = src].page

RECURSIVE ConcatReturns(_, _)
ConcatReturns(src, names) ==
    IF names = <<>> THEN <<>>
    ELSE ReturnedOf(Append(src, names[1])) \o ConcatReturns(src, Tail(names))

\* ------------------------------------------------------------------ claims

\* C1: a directory's template pages are rendered only after each of its
\* content files and each directory of its subtree has been processed (the
\* nested directories' template pages included), and the page list handed to
\* the rendering holds every page of the directory and of its descendants.
C1_TemplateAfterSubtree ==
    \A n \in DOMAIN calls :
        LET t == calls[n]
            d == DirOf(t.source)
        IN  /\ \A f \in Range(ContentFileNames(d.listing)) :
                   \E k \in DOMAIN t.templatePages :
                       t.templatePages[k]["source"] = Append(d.source, f)
            /\ \A sub \in Range(SubDirectoryNames(d.listing)) :
                   \E m \in 1..(n - 1) : calls[m].source = Append(d.source, sub)
            /\ \A e_i \in DOMAIN dirs : LET e == dirs[e_i] IN
                   IsPrefix(t.source, e.source) =>
                       \E m \in 1..n : calls[m].source = e.source
            /\ \A w_i \in DOMAIN writes : LET w == writes[w_i] IN
                   IsPrefix(t.source, Parent(w.page["source"])) =>
                       InSeq(w.page, t.templatePages)

\* C1's case: a directory's template pages were rendered with a page of its
\* own and a page of a subdirectory in the list.
C1_Witness ==
    \E n \in DOMAIN calls :
        /\ \E p \in Range(calls[n].templatePages) :
               Parent(p["source"]) = calls[n].source
        /\ \E p \in Range(calls[n].templatePages) :
               /\ Parent(p["source"]) # calls[n].source
               /\ \E m \in 1..(n - 1) : calls[m].source = Parent(p["source"])

\* A key and value the directory itself brought in: by its local override
\* file or by its content-package date and slug.
IntroducedByDirectory(d, k, v) ==
    \/ Has(d.local, k) /\ d.local[k] = v
    \/ d.isPackage /\ k \in {"date", "slug"} /\ d.config[k] = v

\* A key and value a content file of the directory brought in (front matter
\* and what rendering derived), not already in the directory's configuration.
IntroducedByFile(d, k, v) ==
    \E w_i \in DOMAIN writes : LET w == writes[w_i] IN
        /\ Parent(w.page["source"]) = d.source
        /\ Has(w.page, k)
        /\ w.page[k] = v
        /\ ~(Has(d.config, k) /\ d.config[k] = v)

\* C2: what a directory A introduces never shows in the resolved
\* configuration of a directory outside A's subtree (unless that directory's
\* own chain of ancestors, or the site configuration, brought the same in),
\* every directory receives exactly its parent's resolved configuration, and
\* the mapping a call received from its caller, the site configuration
\* included, is unchanged while the call runs and when it returns.
C2_InheritanceIsolated ==
    /\ \A a_i \in DOMAIN dirs : LET a == dirs[a_i] IN \A b_i \in DOMAIN dirs : LET b == dirs[b_i] IN
           ~IsPrefix(a.source, b.source) =>
               \A k \in DOMAIN b.config :
                   (IntroducedByDirectory(a, k, b.config[k])
                        \/ IntroducedByFile(a, k, b.config[k]))
                   => \/ Has(SiteConfig, k) /\ SiteConfig[k] = b.config[k]
                      \/ \E c_i \in DOMAIN dirs : LET c == dirs[c_i] IN
                             /\ IsPrefix(c.source, b.source)
                             /\ IntroducedByDirectory(c, k, b.config[k])
    /\ \A b_i \in DOMAIN dirs : LET b == dirs[b_i] IN
           b.received = IF b.source = SourceRoot THEN SiteConfig
                        ELSE DirOf(Parent(b.source)).config
    /\ callerConfig = SiteConfig
    /\ \A j \in DOMAIN stack :
           stack[j].baseConfig =
               IF j = 1 THEN callerConfig ELSE stack[j - 1].config

\* C2's case: of two sibling directories, the first is a content package
\* with a local override and a file with front matter, it has returned, and
\* the second, entered after it, resolved a configuration with none of that.
C2_Witness ==
    \E i \in DOMAIN dirs, j \in DOMAIN dirs :
        LET a == dirs[i]
            b == dirs[j]
        IN  /\ i < j
            /\ a.source # SourceRoot
            /\ Parent(a.source) = Parent(b.source)
            /\ Has(a.local, "dist_path")
            /\ a.isPackage
            /\ \E w_i \in DOMAIN writes : LET w == writes[w_i] IN
                   Parent(w.page["source"]) = a.source /\ Has(w.matter, "date")
            /\ \E c_i \in DOMAIN calls : LET c == calls[c_i] IN c.source = a.source
            /\ ~Has(b.config, "dist_path")
            /\ ~Has(b.config, "slug")
            /\ ~Has(b.config, "date")

\* The slug a file name yields by itself.
FileSlug(f) == DateSlugMatch(StripExtension(f)).slug

\* C3: in a directory holding index.md, the page of index.md is written to
\* the directory's resolved destination and every loose content file to that
\* destination followed by the file's own slug.
C3_PackagePaths ==
    \A w_i \in DOMAIN writes : LET w == writes[w_i] IN
        LET d == PageDir(w)
        IN  d.isPackage =>
                w.dir = IF w.page["filename"] = IndexMd
                        THEN d.actualDest
                        ELSE Append(d.actualDest, FileSlug(w.page["filename"]))

\* The first half of C3 alone: the page of index.md is written to the
\* directory's resolved destination.
C3_IndexAtDestination ==
    \A w_i \in DOMAIN writes : LET w == writes[w_i] IN
        w.page["filename"] = IndexMd => w.dir = PageDir(w).actualDest

\* C4 as claimed: index.md of a content package named YYYY-MM-DD[-_]slug is
\* written to <parent destination>/<slug> and dated by the prefix, with or
\* without a dist_path override.
C4_DatedPackagePath ==
    \A w_i \in DOMAIN writes : LET w == writes[w_i] IN
        LET d == PageDir(w)
            b == Basename(d.dest)
        IN  (w.page["filename"] = IndexMd /\ IsDatedName(b)) =>
                /\ w.dir = Append(Parent(d.dest), Drop(b, 11))
                /\ w.page["date"] = SubSeq(b, 1, 10)

\* C4 amended: with dist_path P in the directory's resolved configuration the
\* page goes to <destination root>/P/<slug>; with none it goes to the natural
\* destination, whose last segment keeps the date prefix; its date is the
\* prefix unless the front matter declares a date.
C4_DatedPackagePathAmended ==
    \A w_i \in DOMAIN writes : LET w == writes[w_i] IN
        LET d == PageDir(w)
            b == Basename(d.dest)
        IN  (w.page["filename"] = IndexMd /\ IsDatedName(b)) =>
                /\ w.dir =
                       IF Truthy(Get(d.config, "dist_path"))
                       THEN Append(DestRoot \o SplitPath(d.config["dist_path"]),
                                   Drop(b, 11))
                       ELSE d.dest
                /\ DestRoot \o SplitPath(w.page["path"]) = w.dir
                /\ ~Has(w.matter, "date") => w.page["date"] = SubSeq(b, 1, 10)

\* C4's case: index.md of a dated content package under a dist_path override
\* was written to <dist_path>/<slug>.
C4_Witness ==
    \E w_i \in DOMAIN writes : LET w == writes[w_i] IN
        /\ w.page["filename"] = IndexMd
        /\ Basename(PageDir(w).dest) = WidgetDir
        /\ Truthy(Get(PageDir(w).config, "dist_path"))
        /\ w.page["path"] = <<"o", "u", "t", "/", "w", "i", "d", "g", "e", "t">>
        /\ w.page["date"] = DirDate

\* C5 as claimed: after a completed traversal no two pages were written to
\* the same output directory.
C5_OneFilePerPage ==
    status = "done" =>
        \A i \in DOMAIN writes, j \in DOMAIN writes :
            i # j => writes[i].dir # writes[j].dir

\* C5 amended: every content file is rendered once, to index.html in
\* <destination root>/<page path>; after a completed traversal the pages
\* written are exactly the pages returned, so there are at most as many
\* index.html files as pages (two pages may share an output directory).
C5_OneWritePerPage ==
    /\ \A i \in DOMAIN writes, j \in DOMAIN writes :
           i # j => writes[i].page["source"] # writes[j].page["source"]
    /\ \A w_i \in DOMAIN writes : LET w == writes[w_i] IN w.dir = DestRoot \o SplitPath(w.page["path"])
    /\ status = "done" =>
           /\ Len(result) = Len(writes)
           /\ \A w_i \in DOMAIN writes : LET w == writes[w_i] IN InSeq(w.page, result)
           /\ \A p_i \in DOMAIN result : LET p == result[p_i] IN \E w_i \in DOMAIN writes : LET w == writes[w_i] IN w.page = p
           /\ Cardinality({writes[i].dir : i \in DOMAIN writes}) <= Len(result)

\* C5's case: a traversal completed in which two pages went to the same
\* output directory: a loose file, outside any content package and with the
\* slug of its own name, and the index.md of a subdirectory of that name.
C5_Witness ==
    /\ status = "done"
    /\ \E i \in DOMAIN writes, j \in DOMAIN writes :
           /\ i < j
           /\ writes[i].dir = writes[j].dir
           /\ InSeq(writes[i].page, result)
           /\ InSeq(writes[j].page, result)
           /\ writes[j].page["filename"] = IndexMd
           /\ writes[i].page["slug"] = FileSlug(writes[i].page["filename"])
           /\ \A d_i \in DOMAIN dirs : LET d == dirs[d_i] IN
                  IsPrefix(d.source, writes[i].page["source"]) => ~d.isPackage

\* C6: an AMP failure is caught: the run never aborts, the page is written
\* and listed with path and path_amp, and a run that had failures still
\* processes every content file and subdirectory and renders every
\* directory's template pages.
C6_AmpFailureCaught ==
    /\ status # "aborted"
    /\ \A src \in Range(ampErrors) :
           \E w_i \in DOMAIN writes : LET w == writes[w_i] IN
               /\ w.page["source"] = src
               /\ Has(w.page, "path")
               /\ w.page["path_amp"] = w.page["path"] \o AmpSuffix
               /\ \/ status = "done" /\ InSeq(w.page, result)
                  \/ \E k \in DOMAIN stack : InSeq(w.page, stack[k].pages)
    /\ status = "done" =>
           \A d_i \in DOMAIN dirs : LET d == dirs[d_i] IN
               /\ \E c_i \in DOMAIN calls : LET c == calls[c_i] IN c.source = d.source
               /\ \A f \in Range(ContentFileNames(d.listing)) :
                      \E p_i \in DOMAIN result : LET p == result[p_i] IN p["source"] = Append(d.source, f)
               /\ \A sub \in Range(SubDirectoryNames(d.listing)) :
                      \E e_i \in DOMAIN dirs : LET e == dirs[e_i] IN e.source = Append(d.source, sub)

\* C6's case: the AMP variant of the first page failed and the run went on
\* to another page, a subdirectory and its end.
C6_Witness ==
    /\ status = "done"
    /\ Len(result) >= 2
    /\ Len(calls) >= 2
    /\ ampErrors # <<>>
    /\ ampErrors[1] = result[1]["source"]

C8_FilenameDateSlug ==
    \A w_i \in DOMAIN writes : LET w == writes[w_i] IN
        LET f == w.page["filename"]
        IN  (IsDatedName(f) /\ w.matter = Empty) =>
                /\ w.page["date"] = SubSeq(f, 1, 10)
                /\ w.page["slug"] = Drop(StripExtension(f), 11)

\* C8 where no content package is above the file: the derivation is right.
C8_OutsidePackages ==
    \A w_i \in DOMAIN writes : LET w == writes[w_i] IN
        LET f == w.page["filename"]
        IN  (/\ IsDatedName(f)
             /\ w.matter = Empty
             /\ \A d_i \in DOMAIN dirs : LET d == dirs[d_i] IN
                    IsPrefix(d.source, w.page["source"]) => ~d.isPackage) =>
                /\ w.page["date"] = SubSeq(f, 1, 10)
                /\ w.page["slug"] = Drop(StripExtension(f), 11)

\* C9: a page with a date has the date's first four characters as its year.
C9_YearOfDate ==
    \A w_i \in DOMAIN writes : LET w == writes[w_i] IN
        Truthy(Get(w.page, "date")) =>
            /\ Has(w.page, "year")
            /\ w.page["year"] = SubSeq(w.page["date"], 1, 4)

\* C9 for the pages whose front matter declares no date.
C9_WithoutMatterDate ==
    \A w_i \in DOMAIN writes : LET w == writes[w_i] IN
        (Truthy(Get(w.page, "date")) /\ ~Has(w.matter, "date")) =>
            /\ Has(w.page, "year")
            /\ w.page["year"] = SubSeq(w.page["date"], 1, 4)

\* C10: a rewritten reference to an asset of the page's own source directory
\* is the place the asset was copied to.
C10_RewrittenAssetExists ==
    \A w_i \in DOMAIN writes : LET w == writes[w_i] IN
        \A r \in Range(w.page["content_html"]) :
            (r.rewritten /\ r.target \in Range(AssetFileNames(PageDir(w).listing))) =>
                /\ DestRoot \o SplitPath(r.href) = Append(PageDir(w).actualDest, r.target)
                /\ DestRoot \o SplitPath(r.href) \in assets

\* C10 for the pages of index.md alone.
C10_PackageIndexOnly ==
    \A w_i \in DOMAIN writes : LET w == writes[w_i] IN
        \A r \in Range(w.page["content_html"]) :
            (/\ w.page["filename"] = IndexMd
             /\ r.rewritten
             /\ r.target \in Range(AssetFileNames(PageDir(w).listing))) =>
                DestRoot \o SplitPath(r.href) \in assets

====
